---- MODULE Spec2Model ----
(***************************************************************************)
(* Model of src/src/main.ts (createCustomError): the Class Key Registry    *)
(* (errorClassKeys), the Context Store (errorContexts), the Kinds made by  *)
(* the factory, the error objects they construct, and the static           *)
(* inspection operations.                                                  *)
(***************************************************************************)
EXTENDS Integers, Sequences, FiniteSets, TLC

\* ------------------------------------------------------------------ bounds
MaxKinds == 3
MaxHeap == 3
MaxCauseHeap == 3
MaxCauseKinds == 2

\* ------------------------------------------------------------- input sets
\* createCustomError(name, contextKeys, ...) calls a program makes; "Base" is
\* registered with two different own-field lists.
Decls ==
  { <<"Base", <<"severity">>>>, <<"Base", <<"source">>>>,
    <<"Data", <<"source">>>>, <<"Leaf", <<"extra">>>> }
\* the smaller set of SpecCause
CauseDecls == { d \in Decls : d[1] # "Leaf" }
\* payload field names: three ordinary ones and "parent", which is also the
\* name of an attribute the constructor sets on the instance
Fields == {"severity", "source", "extra", "parent"}
\* the payloads of SpecCause, as sets of field names: the empty payload and
\* payloads with a field named after each attribute the constructor sets
CauseFieldSets ==
  {{}, {"severity", "source"}, {"parent"}, {"inheritanceChain"}, {"name"}, {"message"}}
FieldValue(f) == IF f = "severity" THEN "high" ELSE IF f = "source" THEN "db" ELSE "v"
Messages == {"x"}
\* the messages of SpecBuild: the empty one stands for an omitted one as well
BuildMessages == {"", "x"}
\* string causes; the empty string is falsy
CauseStrings == {"", "boom"}
\* a payload value that is not a string: the object a with a.parent === a
SelfParented == "a.parent = a"

\* ------------------------------------------------------------- JS values
EmptyContext == [f \in {} |-> ""]
Undefined == [t |-> "undefined", id |-> 0, s |-> "", c |-> <<>>, o |-> EmptyContext]
ErrRef(i) == [t |-> "error", id |-> i, s |-> "", c |-> <<>>, o |-> EmptyContext]
Str(x) == [t |-> "string", id |-> 0, s |-> x, c |-> <<>>, o |-> EmptyContext]
Arr(ks) == [t |-> "array", id |-> 0, s |-> "", c |-> ks, o |-> EmptyContext]
Obj(ctx) == [t |-> "object", id |-> 0, s |-> "", c |-> <<>>, o |-> ctx]
Truthy(v) == v.t \in {"error", "array", "object"} \/ (v.t = "string" /\ v.s # "")
\* the JS value a payload value stands for
Val(a) == IF a = SelfParented THEN Obj([parent |-> SelfParented]) ELSE Str(a)

\* Class references: 0 is undefined, RootError is the built-in Error,
\* BadKind is a caller-supplied class whose constructor throws and whose
\* getInstances() is empty, 1..Len(kinds) are the classes made by the factory.
NoKind == 0
RootError == -1
BadKind == -2

\* useDefineForClassFields is the compiler setting the build was made with: the
\* repository holds no tsconfig, and the setting decides whether the fields
\* declared at main.ts 115-118 are defined on the object after super() returns.
VARIABLES errorClassKeys, customErrorRegistry, kinds, heap, errorContexts, last,
          useDefineForClassFields
vars == <<errorClassKeys, customErrorRegistry, kinds, heap, errorContexts, last,
          useDefineForClassFields>>

Put(f, k, v) == [x \in (DOMAIN f) \cup {k} |-> IF x = k THEN v ELSE f[x]]

IsCustom(k) == k \in 1..Len(kinds)

ClassName(k) ==
  IF k = RootError THEN "Error"
  ELSE IF k = BadKind THEN "Bad"
  ELSE kinds[k].name

\* the ancestors listed youngest first
RECURSIVE getInstancesYoungestFirst(_)
getInstancesYoungestFirst(k) ==
  IF ~IsCustom(k) THEN <<>>
  ELSE LET parentError == kinds[k].parentError IN
       IF parentError = NoKind \/ parentError = RootError THEN <<>>
       ELSE <<parentError>> \o getInstancesYoungestFirst(parentError)

\* getInstances of class k (main.ts 421-434); a class without the method gives [].
RECURSIVE getInstances(_)
getInstances(k) ==
  IF ~IsCustom(k) THEN <<>>
  ELSE LET parentError == kinds[k].parentError IN
       IF parentError = NoKind \/ parentError = RootError THEN <<>>
       ELSE getInstances(parentError) \o <<parentError>>

\* errorClassKeys.get(name) || []
KeysOf(name) == IF name \in DOMAIN errorClassKeys THEN errorClassKeys[name] ELSE <<>>

\* for (const key of keys) if (key in from && (!skipPresent || !(key in into))) into[key] = from[key]
RECURSIVE CopyKeys(_, _, _, _)
CopyKeys(keys, from, into, skipPresent) ==
  IF keys = <<>> THEN into
  ELSE LET key == Head(keys)
           next == IF key \in DOMAIN from /\ (~skipPresent \/ key \notin DOMAIN into)
                   THEN Put(into, key, from[key])
                   ELSE into
       IN CopyKeys(Tail(keys), from, next, skipPresent)

\* for (const ancestorClass of ancestorClasses) { ... } (main.ts 180-189)
RECURSIVE CopyAncestorKeys(_, _, _)
CopyAncestorKeys(ancestorClasses, from, into) ==
  IF ancestorClasses = <<>> THEN into
  ELSE CopyAncestorKeys(Tail(ancestorClasses), from,
         CopyKeys(KeysOf(ClassName(Head(ancestorClasses))), from, into, TRUE))

\* Object.assign(this, mergedContext)
ObjectAssign(this, ctx) ==
  [p \in (DOMAIN this) \cup (DOMAIN ctx) |-> IF p \in DOMAIN ctx THEN Val(ctx[p]) ELSE this[p]]

\* the options a constructor sees when it is called with a string by super(...)
StringOptions == [message |-> "", cause |-> Undefined, inherits |-> NoKind]

\* ------------------------------------------------------------ constructor
\* The store a constructor runs in: the objects allocated so far and the
\* Context Store.  An object is [proto: its class, own: its own properties].
Store(h, c) == [heap |-> h, ctx |-> c]

\* new Error(message)
PlainError(message) == [proto |-> RootError, own |-> [message |-> Str(message)]]

\* Reading a property of an error object: own, else Error.prototype (name is
\* "Error"), else undefined; of a plain object: its field; of anything else
\* the model holds: undefined.
Get(v, p) ==
  IF v.t = "object" THEN (IF p \in DOMAIN v.o THEN Val(v.o[p]) ELSE Undefined)
  ELSE IF v.t # "error" THEN Undefined
  ELSE LET own == heap[v.id].own IN
       IF p \in DOMAIN own THEN own[p]
       ELSE IF p = "name" THEN Str("Error")
       ELSE Undefined

\* inherits || parentError (main.ts 138)
EffectiveParent(k, options) ==
  IF options.inherits # NoKind THEN options.inherits ELSE kinds[k].parentError

\* a parent payload built from the parent's own keys alone
ParentContextOwnKeysOnly(effectiveParent, mergedContext) ==
  CopyKeys(KeysOf(ClassName(effectiveParent)), mergedContext, EmptyContext, FALSE)

\* a parent payload whose own keys are those the effective parent was declared
\* with, not those registered under its name
ParentContextDeclaredKeys(effectiveParent, mergedContext) ==
  CopyAncestorKeys(getInstances(effectiveParent), mergedContext,
    CopyKeys(IF IsCustom(effectiveParent) THEN kinds[effectiveParent].contextKeys ELSE <<>>,
             mergedContext, EmptyContext, FALSE))

\* lines 167-189: the payload handed to the synthesized parent
ParentContext(effectiveParent, mergedContext) ==
  CopyAncestorKeys(getInstances(effectiveParent), mergedContext,
    CopyKeys(KeysOf(ClassName(effectiveParent)), mergedContext, EmptyContext, FALSE))

\* lines 223-227
InheritanceChain(effectiveParent) ==
  IF effectiveParent # NoKind /\ effectiveParent # RootError
  THEN getInstances(effectiveParent) \o <<effectiveParent>>
  ELSE <<>>

\* a construction that ignores a structured-object cause
MergedContextWithoutPayload(cause, ctx) ==
  IF cause.t = "error" /\ cause.id \in DOMAIN ctx THEN ctx[cause.id] ELSE EmptyContext

\* a construction that takes no context from an instance cause
MergedContextObjectOnly(cause, ctx) ==
  IF cause.t = "object" THEN cause.o ELSE EmptyContext

\* lines 139-158: the merged context a cause gives
MergedContext(cause, ctx) ==
  IF cause.t = "error"
  THEN (IF cause.id \in DOMAIN ctx THEN ctx[cause.id] ELSE EmptyContext)
  ELSE IF cause.t = "object" THEN cause.o
  ELSE EmptyContext

\* inheritanceChain?, parent?, message! (main.ts 115-117) after super()
DeclaredFields(this) ==
  IF useDefineForClassFields
  THEN Put(Put(Put(this, "inheritanceChain", Undefined), "parent", Undefined),
           "message", Undefined)
  ELSE this

\* a synthesis that hands the parent no cause when the parent payload is empty
ParentCauseIfAny(parentContext) ==
  IF DOMAIN parentContext = {} THEN Undefined ELSE Obj(parentContext)

\* cause: parentContext (main.ts 193): an object, also when it has no field
ParentCause(parentContext) == Obj(parentContext)

\* a test that lets every merged context into the Context Store
HasKeysAlways(ctx) == TRUE

\* Object.keys(mergedContext).length > 0 (main.ts 230)
HasKeys(ctx) == DOMAIN ctx # {}

RECURSIVE Ctor(_, _, _)
RECURSIVE New(_, _, _)

\* The constructor of class k (main.ts 120-242) run with `options` in store st;
\* the object under construction gets the next free address once the objects
\* its constructor allocates are placed.  Result: [st, this, parentInstance].
Ctor(k, options, st) ==
  LET parentError == kinds[k].parentError
      superMessage == IF options.message # "" THEN options.message ELSE "Unknown error"
      \* super(options?.message || "Unknown error"): the parent class's constructor
      \* receives a string, so it sees no message, cause or inherits of its own
      afterSuper == IF IsCustom(parentError)
                    THEN Ctor(parentError, StringOptions, st).this
                    ELSE [message |-> Str(superMessage)]
      \* readonly name: string = name; the fields without initializer are
      \* defined as undefined when the build defines class fields
      withField == DeclaredFields(Put(afterSuper, "name", Str(kinds[k].name)))
      withMessage == IF options.message # ""
                     THEN Put(withField, "message", Str(options.message))
                     ELSE withField
      effectiveParent == EffectiveParent(k, options)
      cause == options.cause
      synthesize == cause.t = "object" /\ effectiveParent # NoKind /\ effectiveParent # RootError
      mergedContext == MergedContext(cause, st.ctx)
      made == IF synthesize
              THEN New(effectiveParent,
                       [message |-> IF options.message # "" THEN options.message
                                    ELSE ClassName(effectiveParent) \o " Error",
                        cause |-> ParentCause(ParentContext(effectiveParent, mergedContext)),
                        inherits |-> NoKind],
                       st)
              ELSE [threw |-> FALSE, st |-> st, id |-> 0, parentInstance |-> Undefined]
      \* try { ... } catch (e) { console.warn(...) }: a throw leaves parentInstance unset
      st1 == IF Truthy(cause) /\ cause.t = "string"
             THEN Store(Append(st.heap, PlainError(cause.s)), st.ctx)
             ELSE IF synthesize /\ ~made.threw THEN made.st
             ELSE st
      parentInstance ==
        IF ~Truthy(cause) THEN Undefined
        ELSE IF cause.t = "error" THEN cause
        ELSE IF cause.t = "string" THEN ErrRef(Len(st1.heap))
        ELSE IF synthesize /\ ~made.threw THEN ErrRef(made.id)
        ELSE Undefined
      address == Len(st1.heap) + 1
      withName == Put(withMessage, "name", Str(kinds[k].name))
      withParent == IF Truthy(parentInstance)
                    THEN Put(withName, "parent", parentInstance)
                    ELSE withName
      withChain == Put(withParent, "inheritanceChain", Arr(InheritanceChain(effectiveParent)))
      stored == HasKeys(mergedContext)
  IN [st |-> IF stored THEN Store(st1.heap, (address :> mergedContext) @@ st1.ctx) ELSE st1,
      this |-> IF stored THEN ObjectAssign(withChain, mergedContext) ELSE withChain,
      parentInstance |-> parentInstance]

\* new k(options): BadKind's constructor throws; a factory class runs Ctor and
\* the finished object is placed in the heap.
New(k, options, st) ==
  IF ~IsCustom(k) THEN [threw |-> TRUE, st |-> st, id |-> 0, parentInstance |-> Undefined]
  ELSE LET r == Ctor(k, options, st) IN
       [threw |-> FALSE,
        parentInstance |-> r.parentInstance,
        st |-> Store(Append(r.st.heap, [proto |-> k, own |-> r.this]), r.st.ctx),
        id |-> Len(r.st.heap) + 1]

\* ---------------------------------------------------------------- inputs
Payloads == { [f \in S |-> FieldValue(f)] : S \in SUBSET Fields }

\* causes that are not instances: absent, a string, a structured object
FreshCauses ==
  {Undefined} \cup { Str(s) : s \in CauseStrings } \cup { Obj(p) : p \in Payloads }

InheritsChoices == {NoKind, RootError, BadKind} \cup (1..Len(kinds))

\* the smaller input sets of SpecCause
CausePayloads ==
  { [f \in S |-> FieldValue(f)] : S \in CauseFieldSets } \cup { [parent |-> SelfParented] }
InstanceCauses ==
  {Undefined} \cup { Str(c) : c \in CauseStrings } \cup { ErrRef(i) : i \in 1..Len(heap) }
    \cup { Obj(p) : p \in CausePayloads }

\* ----------------------------------------------------------------- state
Start ==
  /\ errorClassKeys = [n \in {} |-> <<>>]
  /\ customErrorRegistry = [n \in {} |-> 0]
  /\ kinds = <<>>
  /\ heap = <<>>
  /\ errorContexts = [i \in {} |-> EmptyContext]
  /\ last = [op |-> "init", kind |-> NoKind, options |-> StringOptions, id |-> 0,
             parentInstance |-> Undefined]

\* Spec and SpecCause give every construction a message, and with a message
\* both builds leave the same attributes (the message is set again at 124-132);
\* they run the build that does not define class fields.
Init == Start /\ useDefineForClassFields = FALSE

\* SpecBuild draws the build
InitBuild == Start /\ useDefineForClassFields \in BOOLEAN

\* a factory that keeps the first own-field list registered under a name
CreateCustomErrorFirstWins(name, contextKeys, parentError) ==
  /\ Len(kinds) < MaxKinds
  /\ errorClassKeys' = IF name \in DOMAIN errorClassKeys THEN errorClassKeys
                        ELSE Put(errorClassKeys, name, contextKeys)
  /\ kinds' = Append(kinds, [name |-> name, contextKeys |-> contextKeys,
                             parentError |-> parentError])
  /\ customErrorRegistry' = Put(customErrorRegistry, name, Len(kinds) + 1)
  /\ last' = [op |-> "createCustomError", kind |-> Len(kinds) + 1,
              options |-> StringOptions, id |-> 0, parentInstance |-> Undefined]
  /\ UNCHANGED <<heap, errorContexts, useDefineForClassFields>>

\* createCustomError(name, contextKeys, parentError) (main.ts 96-446)
CreateCustomError(name, contextKeys, parentError) ==
  /\ Len(kinds) < MaxKinds
  /\ errorClassKeys' = Put(errorClassKeys, name, contextKeys)
  /\ kinds' = Append(kinds, [name |-> name, contextKeys |-> contextKeys,
                             parentError |-> parentError])
  /\ customErrorRegistry' = Put(customErrorRegistry, name, Len(kinds) + 1)
  /\ last' = [op |-> "createCustomError", kind |-> Len(kinds) + 1,
              options |-> StringOptions, id |-> 0, parentInstance |-> Undefined]
  /\ UNCHANGED <<heap, errorContexts, useDefineForClassFields>>

\* a construction that also links its cause instance back to the new instance
ConstructLinkingBack(k, options, maxHeap) ==
  LET r == New(k, options, Store(heap, errorContexts)) IN
  /\ Len(r.st.heap) <= maxHeap
  /\ heap' = IF options.cause.t = "error"
             THEN [r.st.heap EXCEPT ![options.cause.id].own = Put(@, "parent", ErrRef(r.id))]
             ELSE r.st.heap
  /\ errorContexts' = r.st.ctx
  /\ last' = [op |-> "new", kind |-> k, options |-> options, id |-> r.id,
              parentInstance |-> r.parentInstance]
  /\ UNCHANGED <<errorClassKeys, customErrorRegistry, kinds, useDefineForClassFields>>

\* new K(options) by a caller
Construct(k, options, maxHeap) ==
  LET r == New(k, options, Store(heap, errorContexts)) IN
  /\ Len(r.st.heap) <= maxHeap
  /\ heap' = r.st.heap
  /\ errorContexts' = r.st.ctx
  /\ last' = [op |-> "new", kind |-> k, options |-> options, id |-> r.id,
              parentInstance |-> r.parentInstance]
  /\ UNCHANGED <<errorClassKeys, customErrorRegistry, kinds, useDefineForClassFields>>

\* ------------------------------------------------- inspection operations
Absent == [some |-> FALSE, v |-> EmptyContext]
Some(ctx) == [some |-> TRUE, v |-> ctx]

\* a getContext that filters by the own fields whatever the option says
getContextOwnOnly(name, error, includeParentContext) ==
  IF error.t # "error" THEN Absent
  ELSE IF error.id \notin DOMAIN errorContexts THEN Absent
  ELSE LET result == CopyKeys(KeysOf(name), errorContexts[error.id], EmptyContext, FALSE)
       IN IF DOMAIN result # {} THEN Some(result) ELSE Absent

\* a getContext that returns an empty object where the code returns undefined
getContextEmptyObject(name, error, includeParentContext) ==
  IF error.t # "error" THEN Absent
  ELSE IF error.id \notin DOMAIN errorContexts THEN Absent
  ELSE LET fullContext == errorContexts[error.id] IN
       IF includeParentContext THEN Some(fullContext)
       ELSE Some(CopyKeys(KeysOf(name), fullContext, EmptyContext, FALSE))

\* K.getContext(error, {includeParentContext}) of a class named `name` (main.ts 317-349)
getContext(name, error, includeParentContext) ==
  IF error.t # "error" THEN Absent
  ELSE IF error.id \notin DOMAIN errorContexts THEN Absent
  ELSE LET fullContext == errorContexts[error.id] IN
       IF includeParentContext THEN Some(fullContext)
       ELSE LET result == IF name \in DOMAIN errorClassKeys
                          THEN CopyKeys(errorClassKeys[name], fullContext, EmptyContext, FALSE)
                          ELSE EmptyContext
            IN IF DOMAIN result # {} THEN Some(result) ELSE Absent

\* while (current) { ...; current = current.parent } (main.ts 408-411, 369-393)
\* never ends when the walk comes back to a value it has met
RECURSIVE WalkRepeats(_, _)
WalkRepeats(current, seen) ==
  IF ~Truthy(current) THEN FALSE
  ELSE IF current \in seen THEN TRUE
  ELSE WalkRepeats(Get(current, "parent"), seen \cup {current})

ParentWalkDiverges(error) == WalkRepeats(error, {})

\* a walk that stops at the first parent
followParentChainOneStep(error) ==
  LET current == Get(error, "parent") IN
  IF Truthy(current) THEN <<error, current>> ELSE <<error>>

\* K.followParentChain(error) (main.ts 404-416) when it returns: the values met
\* along .parent
RECURSIVE followParentChain(_)
followParentChain(error) ==
  LET current == Get(error, "parent") IN
  IF Truthy(current) THEN <<error>> \o followParentChain(current) ELSE <<error>>

\* how a call K.followParentChain(error) ends: error.parent of undefined or null
\* is a TypeError (line 407)
FollowParentChainOutcome(error) ==
  IF error.t = "undefined" THEN "throws"
  ELSE IF ParentWalkDiverges(error) THEN "diverges"
  ELSE "returns"

\* String(v) as a template literal renders it
Text(v) == IF v.t = "string" THEN v.s ELSE IF v.t = "undefined" THEN "undefined" ELSE "[object]"

\* one record of getErrorHierarchy (main.ts 370-382)
HierarchyItem(currentError) ==
  LET chain == Get(currentError, "inheritanceChain")
      parent == Get(currentError, "parent")
  IN [name |-> Get(currentError, "name"),
      message |-> Get(currentError, "message"),
      context |-> IF currentError.t = "error" /\ currentError.id \in DOMAIN errorContexts
                  THEN Some(errorContexts[currentError.id]) ELSE Absent,
      inheritanceChain |-> IF chain.t = "array"
                           THEN Arr([j \in DOMAIN chain.c |-> ClassName(chain.c[j])])
                           ELSE Undefined,
      parent |-> IF Truthy(parent)
                 THEN Str(Text(Get(parent, "name")) \o ": " \o Text(Get(parent, "message")))
                 ELSE Undefined]

\* the while loop of getErrorHierarchy (main.ts 369-393).  A truthy
\* inheritanceChain that is not an array has no map method: the call throws.
RECURSIVE HierarchyFrom(_, _)
HierarchyFrom(currentError, seen) ==
  IF ~Truthy(currentError) THEN [outcome |-> "returns", items |-> <<>>]
  ELSE IF currentError \in seen THEN [outcome |-> "diverges", items |-> <<>>]
  ELSE LET chain == Get(currentError, "inheritanceChain") IN
       IF Truthy(chain) /\ chain.t # "array" THEN [outcome |-> "throws", items |-> <<>>]
       ELSE LET rest == HierarchyFrom(Get(currentError, "parent"), seen \cup {currentError}) IN
            [outcome |-> rest.outcome,
             items |-> IF rest.outcome # "returns" THEN <<>>
                       ELSE <<HierarchyItem(currentError)>> \o rest.items]

\* a getErrorHierarchy without its first line
getErrorHierarchyUnguarded(error) == HierarchyFrom(error, {})

\* K.getErrorHierarchy(error) (main.ts 357-396)
getErrorHierarchy(error) ==
  IF error.t # "error" THEN [outcome |-> "returns", items |-> <<>>]
  ELSE HierarchyFrom(error, {})

\* arguments of the inspection calls: every object made so far and values that
\* are not error objects
InspectArgs ==
  { ErrRef(i) : i \in 1..Len(heap) }
    \cup {Undefined, Str("boom"), Obj(EmptyContext), Obj([severity |-> "high"])}

\* a getContext call that takes the entry it reads out of the Context Store
GetContextConsuming ==
  /\ errorContexts # <<>>
  /\ errorContexts' = [i \in (DOMAIN errorContexts) \ {Len(heap)} |-> errorContexts[i]]
  /\ UNCHANGED <<errorClassKeys, customErrorRegistry, kinds, heap, last,
                 useDefineForClassFields>>

\* The inspection calls read the stores and assign nothing: each action stands
\* for calls with every argument, which return, throw or never end.
GetContext ==
  /\ \A k \in 1..Len(kinds), error \in InspectArgs, includeParentContext \in BOOLEAN :
       getContext(ClassName(k), error, includeParentContext).some \in BOOLEAN
  /\ UNCHANGED vars

FollowParentChain ==
  /\ \A error \in InspectArgs :
       FollowParentChainOutcome(error) = "returns" => Len(followParentChain(error)) >= 1
  /\ UNCHANGED vars

GetErrorHierarchy ==
  /\ \A error \in InspectArgs :
       getErrorHierarchy(error).outcome \in {"returns", "throws", "diverges"}
  /\ UNCHANGED vars

GetInstances ==
  /\ \A k \in 1..Len(kinds) : Len(getInstances(k)) < Len(kinds)
  /\ UNCHANGED vars

\* ---------------------------------------------------- instance methods
\* array.join(sep) over strings
RECURSIVE Join(_, _)
Join(names, sep) ==
  IF names = <<>> THEN ""
  ELSE IF Len(names) = 1 THEN names[1]
  ELSE names[1] \o sep \o Join(Tail(names), sep)

\* the order in which a payload literal lists its fields
FieldOrder ==
  <<"severity", "source", "extra", "name", "message", "parent", "inheritanceChain">>

\* the lines JSON.stringify(context, null, 2) puts between the braces
RECURSIVE JsonLines(_, _)
JsonLines(context, fields) ==
  IF fields = <<>> THEN <<>>
  ELSE IF Head(fields) \in DOMAIN context
       THEN <<"  \"" \o Head(fields) \o "\": \"" \o context[Head(fields)] \o "\"">>
              \o JsonLines(context, Tail(fields))
       ELSE JsonLines(context, Tail(fields))

JsonStringify(context) == "{\n" \o Join(JsonLines(context, FieldOrder), ",\n") \o "\n}"

\* JSON.stringify throws on a value that refers to itself
Circular(context) == \E f \in DOMAIN context : context[f] = SelfParented

\* e.toString() of the instance at address i (main.ts 247-261), as the pieces
\* the result is concatenated from.  A string has a length but no map method.
toString(i) ==
  LET this == ErrRef(i)
      baseString == Text(Get(this, "name")) \o ": " \o Text(Get(this, "message"))
      inheritanceChain == Get(this, "inheritanceChain")
      parent == Get(this, "parent")
      inheritanceInfo ==
        IF inheritanceChain.t = "array" /\ inheritanceChain.c # <<>>
        THEN "\nInheritance Chain: "
               \o Join([j \in DOMAIN inheritanceChain.c |-> ClassName(inheritanceChain.c[j])], " > ")
        ELSE ""
      parentInfo ==
        IF Truthy(parent)
        THEN "\nParent: " \o Text(Get(parent, "name")) \o ": " \o Text(Get(parent, "message"))
        ELSE ""
  IN IF inheritanceChain.t = "string" /\ inheritanceChain.s # ""
     THEN [outcome |-> "throws", parts |-> <<>>]
     ELSE IF i \notin DOMAIN errorContexts
     THEN [outcome |-> "returns", parts |-> <<baseString>>]
     ELSE IF Circular(errorContexts[i])
     THEN [outcome |-> "throws", parts |-> <<>>]
     ELSE [outcome |-> "returns",
           parts |-> <<baseString, "\nCause: " \o JsonStringify(errorContexts[i]),
                       inheritanceInfo, parentInfo>>]

\* the objects that have the methods of CustomError
Instances == { i \in 1..Len(heap) : IsCustom(heap[i].proto) }

CallToString ==
  /\ \A i \in Instances : toString(i).outcome \in {"returns", "throws"}
  /\ UNCHANGED vars

\* a field of a snapshot that is not there
Missing == [present |-> FALSE, name |-> Undefined, message |-> Undefined, context |-> Absent]

\* e.toJSON() of the instance at address i (main.ts 266-306), without the stack
toJSON(i) ==
  LET this == ErrRef(i)
      context == IF i \in DOMAIN errorContexts THEN Some(errorContexts[i]) ELSE Absent
      parent == Get(this, "parent")
      inheritanceChain == Get(this, "inheritanceChain")
  IN IF inheritanceChain.t = "string" /\ inheritanceChain.s # ""
     THEN [outcome |-> "throws", name |-> Undefined, message |-> Undefined,
           context |-> Absent, parent |-> Missing, inheritanceChain |-> Undefined]
     ELSE [outcome |-> "returns",
           name |-> Get(this, "name"),
           message |-> Get(this, "message"),
           context |-> context,
           parent |-> IF Truthy(parent)
                      THEN [present |-> TRUE,
                            name |-> Get(parent, "name"),
                            message |-> Get(parent, "message"),
                            context |-> IF parent.t = "error" /\ parent.id \in DOMAIN errorContexts
                                        THEN Some(errorContexts[parent.id]) ELSE Absent]
                      ELSE Missing,
           inheritanceChain |->
             IF inheritanceChain.t = "array" /\ inheritanceChain.c # <<>>
             THEN Arr([j \in DOMAIN inheritanceChain.c |-> ClassName(inheritanceChain.c[j])])
             ELSE Undefined]

CallToJSON ==
  /\ \A i \in Instances : toJSON(i).outcome \in {"returns", "throws"}
  /\ UNCHANGED vars

\* const ParentErrorClass = parentError ?? Error (main.ts 108): the class that
\* class k extends (113)
ParentErrorClass(k) ==
  IF kinds[k].parentError = NoKind THEN RootError ELSE kinds[k].parentError

\* whether `target` is on the prototype chain of the objects class k makes
RECURSIVE Extends(_, _)
Extends(k, target) ==
  \/ k = target
  \/ IsCustom(k) /\ Extends(ParentErrorClass(k), target)

\* a check that goes by the names of the classes
checkInstanceByName(error, instance) ==
  /\ error.t = "error"
  /\ \E k \in 1..Len(kinds) :
       Extends(heap[error.id].proto, k) /\ ClassName(k) = ClassName(instance)

\* checkInstance(error, instance) (main.ts 86-91): error instanceof instance
checkInstance(error, instance) ==
  error.t = "error" /\ Extends(heap[error.id].proto, instance)

CheckInstance ==
  /\ \A error \in InspectArgs, k \in 1..Len(kinds) : checkInstance(error, k) \in BOOLEAN
  /\ UNCHANGED vars

Inspect ==
  \/ GetContext \/ GetErrorHierarchy \/ FollowParentChain \/ GetInstances
  \/ CallToString \/ CallToJSON \/ CheckInstance

Declare(decls, maxKinds) ==
  \E d \in decls, parentError \in {NoKind} \cup (1..Len(kinds)) :
    Len(kinds) < maxKinds /\ CreateCustomError(d[1], d[2], parentError)

\* Spec: factory calls in any order with one construction from a cause that is
\* not an instance.  Such a construction reads neither the heap nor the Context
\* Store, so it is taken in the empty store.
Next ==
  \/ Declare(Decls, MaxKinds)
  \/ \E k \in 1..Len(kinds), message \in Messages, cause \in FreshCauses,
        inherits \in InheritsChoices :
       /\ heap = <<>>
       /\ Construct(k, [message |-> message, cause |-> cause, inherits |-> inherits], MaxHeap)
  \/ Inspect

Spec == Init /\ [][Next]_vars

\* SpecCause: constructions whose cause may be an earlier instance, over the
\* smaller input sets.
NextCause ==
  \/ Declare(CauseDecls, MaxCauseKinds)
  \/ \E k \in 1..Len(kinds), message \in Messages, cause \in InstanceCauses :
       Construct(k, [message |-> message, cause |-> cause, inherits |-> NoKind], MaxCauseHeap)
  \/ Inspect

SpecCause == Init /\ [][NextCause]_vars

\* SpecBuild: either build, constructions with and without a message
BuildCauses == {Undefined, Str("boom"), Obj([severity |-> "high", source |-> "db"])}

NextBuild ==
  \/ Declare(CauseDecls, MaxCauseKinds)
  \/ \E k \in 1..Len(kinds), message \in BuildMessages, cause \in BuildCauses :
       Construct(k, [message |-> message, cause |-> cause, inherits |-> NoKind], MaxCauseHeap)
  \/ Inspect

SpecBuild == InitBuild /\ [][NextBuild]_vars

\* ================================================================= claims
Range(seq) == { seq[j] : j \in DOMAIN seq }
Restrict(ctx, S) == [f \in (DOMAIN ctx) \cap S |-> ctx[f]]
\* what the Context Store gives for a merged context: nothing when it is empty
StoredOrAbsent(ctx) == IF DOMAIN ctx = {} THEN Absent ELSE Some(ctx)
StoredContext(i) == IF i \in DOMAIN errorContexts THEN Some(errorContexts[i]) ELSE Absent
OwnFields(name) == Range(KeysOf(name))
Reverse(seq) == [j \in 1..Len(seq) |-> seq[Len(seq) + 1 - j]]

\* the declared ancestors of class k, by following parentError
RECURSIVE AncestorSet(_)
AncestorSet(k) ==
  IF ~IsCustom(k) THEN {}
  ELSE IF IsCustom(kinds[k].parentError)
       THEN {kinds[k].parentError} \cup AncestorSet(kinds[k].parentError)
       ELSE {}

\* the construction the last step made, when it made one
Constructed == last.op = "new"
LastInstance == ErrRef(last.id)
LastPayload == last.options.cause.o
LastEffectiveParent == EffectiveParent(last.kind, last.options)
StructuredCause == Constructed /\ last.options.cause.t = "object"
FullChain ==
  /\ Len(kinds) = 3
  /\ kinds[1] = [name |-> "Base", contextKeys |-> <<"severity">>, parentError |-> NoKind]
  /\ kinds[2] = [name |-> "Data", contextKeys |-> <<"source">>, parentError |-> 1]
  /\ kinds[3] = [name |-> "Leaf", contextKeys |-> <<"extra">>, parentError |-> 2]

\* C1: after a construction with a structured-object cause, getContext with
\* default options returns exactly the payload: every top-level field with its
\* value, declared by any level of the Kind chain or by none (and undefined for
\* the payload without fields, which is never stored).
C1_MergedContextIsPayload ==
  StructuredCause =>
    getContext(ClassName(last.kind), LastInstance, TRUE) = StoredOrAbsent(LastPayload)

\* a Leaf instance of the chain Base <- Data <- Leaf built from a payload with a
\* field of each level and one no Kind declares
C1_Witness ==
  /\ FullChain /\ StructuredCause /\ last.kind = 3 /\ last.options.inherits = NoKind
  /\ DOMAIN LastPayload = {"severity", "source", "extra", "parent"}
  /\ getContext("Leaf", LastInstance, TRUE) = Some(LastPayload)

\* C2: getContext with includeParentContext false returns exactly the stored
\* fields registered as own under the Kind's name, and undefined when none of
\* them is present.
C2_OwnFieldsOnly ==
  \A k \in 1..Len(kinds), i \in DOMAIN errorContexts :
    getContext(ClassName(k), ErrRef(i), FALSE)
      = StoredOrAbsent(Restrict(errorContexts[i], OwnFields(ClassName(k))))

\* Base(severity) <- Data(source), e = new Data({cause: {severity, source}}), and a
\* Kind none of whose own fields is stored
C2_Witness ==
  /\ FullChain /\ StructuredCause /\ last.kind = 2 /\ last.options.inherits = NoKind
  /\ LastPayload = [severity |-> "high", source |-> "db"]
  /\ getContext("Data", LastInstance, FALSE) = Some([source |-> "db"])
  /\ getContext("Base", LastInstance, FALSE) = Some([severity |-> "high"])
  /\ getContext("Leaf", LastInstance, FALSE) = Absent

\* C3: the parent synthesized for a structured-object cause is an instance of
\* the effective parent, and its stored context is the child's merged context
\* restricted to the own fields registered for the effective parent and its
\* ancestors.
C3_SynthesizedParentContext ==
  (StructuredCause /\ IsCustom(LastEffectiveParent)) =>
    LET p == last.parentInstance
        fields == OwnFields(ClassName(LastEffectiveParent))
                    \cup UNION { OwnFields(ClassName(a)) : a \in AncestorSet(LastEffectiveParent) }
    IN /\ p.t = "error"
       /\ heap[p.id].proto = LastEffectiveParent
       /\ StoredContext(p.id) = StoredOrAbsent(Restrict(LastPayload, fields))

\* Leaf built with the override inherits: Data from a payload holding an
\* ancestor's field, the child's own field and an undeclared one
C3_Witness ==
  /\ FullChain /\ StructuredCause /\ last.kind = 3 /\ last.options.inherits = 2
  /\ DOMAIN LastPayload = {"severity", "extra", "parent"}
  /\ StoredContext(last.parentInstance.id) = Some([severity |-> "high"])

\* C4: for an instance e built from a structured-object cause,
\* followParentChain(e) is e, then one synthesized instance per member of e's
\* inheritance chain from the effective parent back to the oldest ancestor; its
\* length is one more than the inheritance chain's.
C4_ParentChainMirrorsInheritanceChain ==
  (StructuredCause /\ LastEffectiveParent # BadKind) =>
    LET chain == followParentChain(LastInstance)
        inheritanceChain == Get(LastInstance, "inheritanceChain")
        expected == <<last.kind>> \o Reverse(inheritanceChain.c)
    IN /\ inheritanceChain.t = "array"
       /\ Len(chain) = 1 + Len(inheritanceChain.c)
       /\ chain[1] = LastInstance
       /\ \A j \in 1..Len(chain) :
            /\ chain[j].t = "error"
            /\ heap[chain[j].id].proto = expected[j]
            /\ Get(chain[j], "name") = Str(ClassName(expected[j]))

\* C4 on the payloads that have no field called parent
C4_WithoutParentField ==
  "parent" \in DOMAIN LastPayload \/ C4_ParentChainMirrorsInheritanceChain

\* C5: when the construction of the synthesized parent throws, the child is
\* still constructed, has no parent attribute, and its context and inheritance
\* chain are set as if no synthesis had been attempted.
C5_SynthesisFailureIsSwallowed ==
  (StructuredCause /\ LastEffectiveParent = BadKind) =>
    /\ last.id \in 1..Len(heap)
    /\ heap[last.id].proto = last.kind
    /\ Get(LastInstance, "parent") = Undefined
    /\ StoredContext(last.id) = StoredOrAbsent(LastPayload)
    /\ Get(LastInstance, "inheritanceChain") = Arr(<<BadKind>>)

\* C5 on the payloads that have no field called parent
C5_WithoutParentField ==
  "parent" \in DOMAIN LastPayload \/ C5_SynthesisFailureIsSwallowed

\* the Kind of a stored instance and whether two Kinds share any ancestry
KindOf(i) == heap[i].proto
Lineage(k) == {k} \cup AncestorSet(k)
Unrelated(k1, k2) == IsCustom(k1) /\ IsCustom(k2) /\ Lineage(k1) \cap Lineage(k2) = {}

\* C6: an instance built with an instance of an unrelated Kind as cause has that
\* very instance as parent, and its inheritance chain holds the declared
\* ancestors of its own Kind only.
C6_InstanceCauseIsParent ==
  (Constructed /\ last.options.cause.t = "error"
     /\ Unrelated(KindOf(last.options.cause.id), last.kind)) =>
    /\ Get(LastInstance, "parent") = last.options.cause
    /\ Get(LastInstance, "inheritanceChain") = Arr(getInstances(last.kind))
    /\ Range(getInstances(last.kind)) \cap Lineage(KindOf(last.options.cause.id)) = {}

\* C6 on the causes whose stored context has no field named after an attribute
C6_WithoutAttributeFields ==
  \/ ~(Constructed /\ last.options.cause.t = "error")
  \/ (last.options.cause.id \in DOMAIN errorContexts
        /\ DOMAIN errorContexts[last.options.cause.id] \cap {"parent", "inheritanceChain"} # {})
  \/ C6_InstanceCauseIsParent

\* C7: whatever the cause, a constructed instance's inheritance chain is the
\* effective parent's getInstances() followed by the effective parent, and is
\* empty without an effective parent or with the root type as one.
C7_InheritanceChainOfEffectiveParent ==
  Constructed =>
    Get(LastInstance, "inheritanceChain")
      = Arr(IF LastEffectiveParent \in {NoKind, RootError} THEN <<>>
            ELSE Append(getInstances(LastEffectiveParent), LastEffectiveParent))

\* C7 on the merged contexts that have no field called inheritanceChain
C7_WithoutChainField ==
  \/ (Constructed /\ last.id \in DOMAIN errorContexts
        /\ "inheritanceChain" \in DOMAIN errorContexts[last.id])
  \/ C7_InheritanceChainOfEffectiveParent

\* C8: getInstances lists the declared ancestors oldest first, without the root
\* type and without the Kind itself, whatever overrides constructions used.
C8_DeclaredAncestorsOldestFirst ==
  \A k \in 1..Len(kinds) :
    LET g == getInstances(k) IN
    /\ Range(g) = AncestorSet(k)
    /\ k \notin Range(g) /\ RootError \notin Range(g)
    /\ IF IsCustom(kinds[k].parentError)
       THEN /\ g # <<>>
            /\ g[Len(g)] = kinds[k].parentError
            /\ ~IsCustom(kinds[g[1]].parentError)
            /\ \A j \in 2..Len(g) : kinds[g[j]].parentError = g[j - 1]
       ELSE g = <<>>

C8_Witness ==
  /\ FullChain /\ Constructed /\ last.kind = 3 /\ last.options.inherits = 1
  /\ getInstances(3) = <<1, 2>> /\ getInstances(1) = <<>>

\* C9: with a name registered twice, getContext with includeParentContext false
\* filters by the own-field list of the latest Factory call for that name.
C9_LastRegistrationWins ==
  \A k1, k2 \in 1..Len(kinds) :
    ( /\ k1 < k2 /\ kinds[k1].name = kinds[k2].name
      /\ \A k3 \in 1..Len(kinds) : k3 > k2 => kinds[k3].name # kinds[k2].name ) =>
    \A i \in 1..Len(heap), k \in {k1, k2} :
      getContext(ClassName(k), ErrRef(i), FALSE)
        = IF i \in DOMAIN errorContexts
          THEN StoredOrAbsent(Restrict(errorContexts[i], Range(kinds[k2].contextKeys)))
          ELSE Absent

\* "Base" registered with severity, an instance built, "Base" registered again
\* with source
C9_Witness ==
  /\ Len(kinds) = 2 /\ kinds[1].name = "Base" /\ kinds[2].name = "Base"
  /\ kinds[1].contextKeys = <<"severity">> /\ kinds[2].contextKeys = <<"source">>
  /\ last.op = "createCustomError"
  /\ Len(heap) = 1 /\ StoredContext(1) = Some([severity |-> "high", source |-> "db"])
  /\ getContext(ClassName(1), ErrRef(1), FALSE) = Some([source |-> "db"])

\* C10: no step changes a constructed instance: its attributes (parent and
\* inheritance chain among them) and its stored context stay what construction
\* made them, whatever is constructed, registered or inspected afterwards.
C10_InstancesAreFrozen ==
  [][\A i \in 1..Len(heap) :
       /\ i \in 1..Len(heap')
       /\ heap'[i] = heap[i]
       /\ (i \in DOMAIN errorContexts') = (i \in DOMAIN errorContexts)
       /\ i \in DOMAIN errorContexts => errorContexts'[i] = errorContexts[i]]_vars

\* an instance with a stored context serves as the cause of a second
\* construction after its Kind's name was registered again
C10_Witness ==
  /\ Constructed /\ last.options.cause = ErrRef(1) /\ last.id = 2
  /\ 1 \in DOMAIN errorContexts
  /\ \E k \in 1..Len(kinds) : k > KindOf(1) /\ kinds[k].name = kinds[KindOf(1)].name
  /\ Get(ErrRef(2), "parent") = ErrRef(1)

\* a construction step whose cause is an instance, and what the claim says of it
InstanceCauseStep == last'.op = "new" /\ last'.options.cause.t = "error"
InstanceCauseOutcome ==
  LET cause == last'.options.cause.id
      this == last'.id
  IN /\ Len(heap') = Len(heap) + 1
     /\ this = Len(heap')
     /\ (this \in DOMAIN errorContexts') = (cause \in DOMAIN errorContexts)
     /\ cause \in DOMAIN errorContexts => errorContexts'[this] = errorContexts[cause]
     /\ "parent" \in DOMAIN heap'[this].own
     /\ heap'[this].own.parent = ErrRef(cause)

\* C11: a construction whose cause is an instance stores a copy of that
\* instance's stored context (nothing if it has none), makes that instance the
\* parent, and allocates no other object, whatever parent the Kind declares.
C11_InstanceCauseSeedsContextAndParent ==
  [][InstanceCauseStep => InstanceCauseOutcome]_vars

\* C11 on the causes whose stored context has no field called parent
C11_WithoutParentField ==
  [][(InstanceCauseStep /\ (last'.options.cause.id \in DOMAIN errorContexts =>
        "parent" \notin DOMAIN errorContexts[last'.options.cause.id]))
       => InstanceCauseOutcome]_vars

\* C12: a string cause gives the instance a parent that is a plain root-type
\* error with that string as message, and no merged context; an absent cause
\* gives neither merged context nor parent.
C12_StringOrAbsentCause ==
  (Constructed /\ last.options.cause.t \in {"string", "undefined"}) =>
    /\ StoredContext(last.id) = Absent
    /\ DOMAIN heap[last.id].own \subseteq {"name", "message", "parent", "inheritanceChain"}
    /\ IF last.options.cause.t = "string"
       THEN LET parent == Get(LastInstance, "parent") IN
            /\ parent.t = "error"
            /\ heap[parent.id] = PlainError(last.options.cause.s)
       ELSE Get(LastInstance, "parent") = Undefined

\* C12 on the string causes that are not empty
C12_NonEmptyStringCause ==
  last.options.cause = Str("") \/ C12_StringOrAbsentCause

\* C13: followParentChain(instance) is the instance, then each node's parent
\* in turn, and ends at the first node without a parent; an instance without a
\* parent gives the sequence holding it alone.
C13_ParentChainWalk ==
  \A i \in 1..Len(heap) :
    LET chain == followParentChain(ErrRef(i)) IN
    /\ chain[1] = ErrRef(i)
    /\ \A j \in 1..(Len(chain) - 1) :
         Truthy(Get(chain[j], "parent")) /\ chain[j + 1] = Get(chain[j], "parent")
    /\ ~Truthy(Get(chain[Len(chain)], "parent"))
    /\ Get(ErrRef(i), "parent") = Undefined => chain = <<ErrRef(i)>>

\* a Leaf whose two ancestors were synthesized: a walk over three nodes, and the
\* oldest of them without a parent
C13_Witness ==
  /\ FullChain /\ StructuredCause /\ last.kind = 3 /\ last.id = 3
  /\ followParentChain(ErrRef(3)) = <<ErrRef(3), ErrRef(2), ErrRef(1)>>
  /\ followParentChain(ErrRef(1)) = <<ErrRef(1)>>

\* the record the claim describes for node j of a parent chain
ExpectedRecord(chain, j) ==
  LET node == chain[j]
      inheritanceChain == Get(node, "inheritanceChain")
  IN [name |-> Get(node, "name"),
      message |-> Get(node, "message"),
      context |-> IF node.t = "error" THEN StoredContext(node.id) ELSE Absent,
      inheritanceChain |-> IF inheritanceChain.t = "array"
                           THEN Arr([n \in DOMAIN inheritanceChain.c |->
                                       ClassName(inheritanceChain.c[n])])
                           ELSE Undefined,
      parent |-> IF j < Len(chain)
                 THEN Str(Text(Get(chain[j + 1], "name")) \o ": "
                            \o Text(Get(chain[j + 1], "message")))
                 ELSE Undefined]

\* C14: getErrorHierarchy(instance) returns one record per node of
\* followParentChain(instance), in that order; record i holds node i's name,
\* message, stored context and inheritance-chain Kind names, and as parent the
\* text "<name>: <message>" of node i+1, which the last record lacks.
C14_HierarchyRecords ==
  \A i \in 1..Len(heap) :
    FollowParentChainOutcome(ErrRef(i)) = "returns" =>
      LET chain == followParentChain(ErrRef(i))
          hierarchy == getErrorHierarchy(ErrRef(i))
      IN /\ hierarchy.outcome = "returns"
         /\ Len(hierarchy.items) = Len(chain)
         /\ \A j \in 1..Len(chain) : hierarchy.items[j] = ExpectedRecord(chain, j)

\* C14 while no stored context has a field called inheritanceChain
C14_WithoutChainField ==
  \/ \E i \in DOMAIN errorContexts : "inheritanceChain" \in DOMAIN errorContexts[i]
  \/ C14_HierarchyRecords

\* C15: no inspection operation throws, whatever its argument: an instance,
\* undefined, a string or a plain object.
C15_InspectionNeverThrows ==
  \A k \in 1..Len(kinds), error \in InspectArgs :
    /\ \A includeParentContext \in BOOLEAN :
         getContext(ClassName(k), error, includeParentContext).some \in BOOLEAN
    /\ getErrorHierarchy(error).outcome # "throws"
    /\ FollowParentChainOutcome(error) # "throws"
    /\ Len(getInstances(k)) >= 0

\* C15 for the arguments that are objects made so far, while no stored context
\* has a field called inheritanceChain
C15_OnInstances ==
  \/ \E i \in DOMAIN errorContexts : "inheritanceChain" \in DOMAIN errorContexts[i]
  \/ \A i \in 1..Len(heap) :
       /\ getErrorHierarchy(ErrRef(i)).outcome # "throws"
       /\ FollowParentChainOutcome(ErrRef(i)) # "throws"

\* C16: a lookup miss gives an empty result: getContext returns undefined for
\* an argument that is not an error object and for one without stored context,
\* and getErrorHierarchy returns the empty sequence for an argument that is not
\* an error object.
C16_LookupMissIsEmpty ==
  \A k \in 1..Len(kinds), error \in InspectArgs, includeParentContext \in BOOLEAN :
    /\ (error.t # "error" \/ error.id \notin DOMAIN errorContexts)
         => getContext(ClassName(k), error, includeParentContext) = Absent
    /\ error.t # "error"
         => getErrorHierarchy(error) = [outcome |-> "returns", items |-> <<>>]

\* an instance and its plain root-type parent, both without stored context,
\* next to the arguments that are no error objects
C16_Witness ==
  /\ Constructed /\ last.options.cause = Str("boom") /\ Len(heap) = 2
  /\ errorContexts = <<>>
  /\ getContext(ClassName(last.kind), ErrRef(2), TRUE) = Absent
  /\ getContext(ClassName(last.kind), Obj([severity |-> "high"]), TRUE) = Absent
  /\ getErrorHierarchy(Str("boom")).items = <<>>
  /\ Len(getErrorHierarchy(ErrRef(2)).items) = 2

\* the causes that give an empty merged context: absent, a string, an empty
\* structured object, an instance without stored context
NoContextCause ==
  LET cause == last.options.cause IN
  \/ cause.t \in {"undefined", "string"}
  \/ cause.t = "object" /\ DOMAIN cause.o = {}
  \/ cause.t = "error" /\ cause.id \notin DOMAIN errorContexts

\* C17: an instance has a Context Store entry exactly when its merged context
\* is not empty: no stored context is an empty object, and getContext returns
\* undefined for an instance built from a cause that gives no context.
C17_StoredIffNonEmpty ==
  /\ \A i \in DOMAIN errorContexts : DOMAIN errorContexts[i] # {}
  /\ Constructed =>
       /\ (last.id \notin DOMAIN errorContexts) = NoContextCause
       /\ NoContextCause =>
            \A k \in 1..Len(kinds), includeParentContext \in BOOLEAN :
              getContext(ClassName(k), LastInstance, includeParentContext) = Absent

\* an instance with stored context, one built without a cause, and one built
\* from that second instance
C17_Witness ==
  /\ Constructed /\ Len(heap) = 3 /\ last.id = 3 /\ last.options.cause = ErrRef(2)
  /\ DOMAIN errorContexts = {1}
  /\ getContext(ClassName(last.kind), ErrRef(3), TRUE) = Absent
  /\ getContext(ClassName(last.kind), ErrRef(1), TRUE).some

\* C18: without a Factory call in between, two getContext calls on one
\* instance with the same Kind and options return equal results, and a
\* getContext call leaves every stored context as it was: no step other than a
\* Factory call changes what getContext returns for an instance that exists,
\* and no such step changes its stored context.
C18_ReadsAreIdempotent ==
  [][kinds' = kinds =>
       \A i \in 1..Len(heap) :
         /\ (i \in DOMAIN errorContexts') = (i \in DOMAIN errorContexts)
         /\ i \in DOMAIN errorContexts => errorContexts'[i] = errorContexts[i]
         /\ \A k \in 1..Len(kinds), includeParentContext \in BOOLEAN :
              getContext(ClassName(k), ErrRef(i), includeParentContext)'
                = getContext(ClassName(k), ErrRef(i), includeParentContext)]_vars

\* an instance whose stored context has an own field and another one, so that
\* the two kinds of read return different contexts
C18_Witness ==
  \E k \in 1..Len(kinds), i \in DOMAIN errorContexts :
    /\ getContext(ClassName(k), ErrRef(i), TRUE) = Some([severity |-> "high", source |-> "db"])
    /\ getContext(ClassName(k), ErrRef(i), FALSE) = Some([source |-> "db"])

\* C19: a constructed instance's name is the name of the Kind whose
\* constructor was invoked, at any depth of declared ancestry and for every
\* payload: not an ancestor's name, not a value of the payload.
C19_NameIsKindName ==
  Constructed => Get(LastInstance, "name") = Str(ClassName(last.kind))

\* C19 on the merged contexts that have no field called name
C19_WithoutNameField ==
  \/ (Constructed /\ last.id \in DOMAIN errorContexts
        /\ "name" \in DOMAIN errorContexts[last.id])
  \/ C19_NameIsKindName

\* C20: the parent chain of every instance that Factory calls and
\* constructions produce is acyclic and finite: followParentChain and
\* getErrorHierarchy end on each of them.
C20_ParentChainIsFinite ==
  \A i \in 1..Len(heap) :
    /\ ~ParentWalkDiverges(ErrRef(i))
    /\ FollowParentChainOutcome(ErrRef(i)) # "diverges"
    /\ getErrorHierarchy(ErrRef(i)).outcome # "diverges"

\* C20 while no stored context has a field called parent: every parent is an
\* object made before its child
C20_WithoutParentField ==
  \/ \E i \in DOMAIN errorContexts : "parent" \in DOMAIN errorContexts[i]
  \/ /\ C20_ParentChainIsFinite
     /\ \A i \in 1..Len(heap) :
          LET parent == Get(ErrRef(i), "parent") IN
          parent = Undefined \/ (parent.t = "error" /\ parent.id < i)

\* C24: an instance's message is the message given at construction when that
\* is not empty and "Unknown error" when it is omitted or empty, at any depth of
\* declared ancestry.
C24_MessageOrFallback ==
  Constructed =>
    Get(LastInstance, "message")
      = Str(IF last.options.message # "" THEN last.options.message ELSE "Unknown error")

\* C24 for the messages that are not empty, in either build, and for every
\* message in the build that does not define class fields
C24_GivenMessageOrLegacyBuild ==
  (last.options.message = "" /\ useDefineForClassFields) \/ C24_MessageOrFallback

\* C21: e.toString() begins with "<name>: <message>", holds the Kind names of
\* the inheritance chain, oldest first, whenever the chain is not empty, and
\* holds a line "<parent name>: <parent message>" whenever e has a parent.
C21_ToStringShowsChainAndParent ==
  \A i \in Instances :
    LET this == ErrRef(i)
        text == toString(i)
        inheritanceChain == Get(this, "inheritanceChain")
        parent == Get(this, "parent")
    IN /\ text.outcome = "returns"
       /\ text.parts[1] = Text(Get(this, "name")) \o ": " \o Text(Get(this, "message"))
       /\ (inheritanceChain.t = "array" /\ inheritanceChain.c # <<>>) =>
            \E j \in DOMAIN text.parts :
              text.parts[j] = "\nInheritance Chain: "
                \o Join([n \in DOMAIN inheritanceChain.c |-> ClassName(inheritanceChain.c[n])], " > ")
       /\ Truthy(parent) =>
            \E j \in DOMAIN text.parts :
              text.parts[j] = "\nParent: " \o Text(Get(parent, "name")) \o ": "
                                \o Text(Get(parent, "message"))

\* C21 for the instances with stored context, where no value of the context
\* refers to itself and no field is called inheritanceChain
C21_WithStoredContext ==
  \A i \in Instances :
    \/ i \notin DOMAIN errorContexts
    \/ Circular(errorContexts[i])
    \/ "inheritanceChain" \in DOMAIN errorContexts[i]
    \/ LET this == ErrRef(i)
           text == toString(i)
           inheritanceChain == Get(this, "inheritanceChain")
           parent == Get(this, "parent")
       IN /\ text.outcome = "returns"
          /\ text.parts[1] = Text(Get(this, "name")) \o ": " \o Text(Get(this, "message"))
          /\ inheritanceChain.c # <<>> =>
               text.parts[3] = "\nInheritance Chain: "
                 \o Join([n \in DOMAIN inheritanceChain.c |-> ClassName(inheritanceChain.c[n])], " > ")
          /\ Truthy(parent) =>
               text.parts[4] = "\nParent: " \o Text(Get(parent, "name")) \o ": "
                                 \o Text(Get(parent, "message"))

\* the example of C21: Base <- Data, e = new Data({message: "x", cause:
\* {severity: "high", source: "db"}}) renders "Data: x" and the chain text "Base"
C21_Example ==
  ( /\ Constructed /\ Len(kinds) >= 2 /\ last.kind = 2 /\ last.options.inherits = NoKind
    /\ kinds[1].name = "Base" /\ kinds[2].name = "Data" /\ kinds[2].parentError = 1
    /\ last.options.cause = Obj([severity |-> "high", source |-> "db"]) ) =>
    toString(last.id).parts
      = << "Data: x",
           "\nCause: {\n  \"severity\": \"high\",\n  \"source\": \"db\"\n}",
           "\nInheritance Chain: Base",
           "\nParent: Base: x" >>

\* C22: the snapshot of an instance always has name and message; context
\* exactly when the instance has stored context, equal to it; parent = {name,
\* message, context?} exactly when the instance has a parent, its context
\* exactly when the parent has stored context; inheritanceChain, the Kind
\* names oldest first, exactly when the chain is not empty.
C22_SnapshotFields ==
  \A i \in Instances :
    LET this == ErrRef(i)
        snapshot == toJSON(i)
        parent == Get(this, "parent")
        inheritanceChain == Get(this, "inheritanceChain")
    IN /\ snapshot.outcome = "returns"
       /\ snapshot.name = Get(this, "name")
       /\ snapshot.message = Get(this, "message")
       /\ snapshot.context = StoredContext(i)
       /\ snapshot.parent.present = (parent # Undefined)
       /\ parent # Undefined =>
            /\ snapshot.parent.name = Get(parent, "name")
            /\ snapshot.parent.message = Get(parent, "message")
            /\ snapshot.parent.context
                 = IF parent.t = "error" THEN StoredContext(parent.id) ELSE Absent
       /\ snapshot.inheritanceChain
            = IF inheritanceChain.t = "array" /\ inheritanceChain.c # <<>>
              THEN Arr([n \in DOMAIN inheritanceChain.c |-> ClassName(inheritanceChain.c[n])])
              ELSE Undefined

\* C22 for the instances whose stored context has no field called
\* inheritanceChain
C22_WithoutChainField ==
  \/ \E i \in DOMAIN errorContexts : "inheritanceChain" \in DOMAIN errorContexts[i]
  \/ C22_SnapshotFields

\* C23: checkInstance(e, K) is true exactly when e was constructed by K or by
\* a Kind with K as direct or transitive declared parent; an inherits override,
\* a caused-by parent link or an equal name of two Kinds does not change it.
C23_CheckInstanceIsDeclaredLineage ==
  \A i \in 1..Len(heap), k \in 1..Len(kinds) :
    checkInstance(ErrRef(i), k) = (KindOf(i) = k \/ k \in AncestorSet(KindOf(i)))

\* Base, Data without a declared parent, Base again; a Data built with the
\* override inherits: Base, whose parent is a synthesized instance of the first
\* Base
C23_Witness ==
  /\ Len(kinds) = 3 /\ kinds[1].name = "Base" /\ kinds[3].name = "Base"
  /\ kinds[2].name = "Data" /\ kinds[2].parentError = NoKind
  /\ Constructed /\ last.kind = 2 /\ last.options.inherits = 1 /\ last.id = 2
  /\ Get(ErrRef(2), "parent") = ErrRef(1)
  /\ checkInstance(ErrRef(1), 1) /\ ~checkInstance(ErrRef(1), 3)
  /\ checkInstance(ErrRef(2), 2) /\ ~checkInstance(ErrRef(2), 1)

\* whether every field of the stored context of `parent` is a field of the
\* stored context of `child` with the same value
ContextContained(parent, child) ==
  (parent.t = "error" /\ parent.id \in DOMAIN errorContexts) =>
    /\ child.id \in DOMAIN errorContexts
    /\ \A f \in DOMAIN errorContexts[parent.id] :
         /\ f \in DOMAIN errorContexts[child.id]
         /\ errorContexts[child.id][f] = errorContexts[parent.id][f]

\* C25: when the parent of a constructed instance is an instance with stored
\* context, synthesized from the payload or given as cause, every field of the
\* parent's stored context is a field of the child's with the same value, and
\* so on up the synthesized ancestors, also for a field name that several
\* Kinds of the chain declare.
C25_ParentContextIsContained ==
  Constructed =>
    LET parent == last.parentInstance IN
    /\ ContextContained(parent, LastInstance)
    /\ (StructuredCause /\ parent.t = "error") =>
         LET chain == followParentChain(parent) IN
         \A j \in 1..(Len(chain) - 1) : ContextContained(chain[j + 1], chain[j])

\* Base and Data <- Base both declare source; a Data built from a payload with
\* its synthesized Base parent, then given as the cause of a third instance
C25_Witness ==
  /\ Len(kinds) = 2 /\ kinds[1].contextKeys = <<"source">> /\ kinds[2].contextKeys = <<"source">>
  /\ kinds[2].parentError = 1
  /\ Constructed /\ last.options.cause = ErrRef(2) /\ last.id = 3
  /\ Len(heap) = 3 /\ DOMAIN errorContexts = {1, 2, 3}
  /\ heap[2].proto = 2 /\ Get(ErrRef(2), "parent") = ErrRef(1)
  /\ errorContexts[1] = [source |-> "db"]
  /\ errorContexts[2] = [severity |-> "high", source |-> "db"]
  /\ errorContexts[3] = [severity |-> "high", source |-> "db"]

\* the attributes the construction algorithm sets
AttributeNames == {"name", "message", "parent", "inheritanceChain"}

\* C26: exposing the merged-context fields on the instance alters none of
\* name, message, parent and inheritance chain: also for a payload with fields
\* of these names the construction succeeds and the four attributes are the
\* ones the construction algorithm set, so that the walks follow the real
\* parent.
C26_ExposureKeepsAttributes ==
  Constructed =>
    /\ last.id \in 1..Len(heap)
    /\ Get(LastInstance, "name") = Str(ClassName(last.kind))
    /\ Get(LastInstance, "message") = Str(last.options.message)
    /\ Get(LastInstance, "parent") = last.parentInstance
    /\ Get(LastInstance, "inheritanceChain")
         = Arr(IF LastEffectiveParent \in {NoKind, RootError} THEN <<>>
               ELSE Append(getInstances(LastEffectiveParent), LastEffectiveParent))

\* C26 on the merged contexts without a field named after an attribute
C26_WithoutAttributeFields ==
  \/ (Constructed /\ last.id \in DOMAIN errorContexts
        /\ DOMAIN errorContexts[last.id] \cap AttributeNames # {})
  \/ C26_ExposureKeepsAttributes

\* each of the four attributes is overwritten by a payload field of its name
C26_EachAttributeIsOverwritten ==
  \A f \in AttributeNames :
    (Constructed /\ last.options.cause.t = "object" /\ f \in DOMAIN LastPayload)
      => Get(LastInstance, f) = Val(LastPayload[f])

\* C27: a construction with a structured-object cause ends for every Kind and
\* every inherits override, the Kind itself and its descendants included: the
\* synthesized ancestors are built without an override, and the parent chain of
\* the result has 2 + (number of declared ancestors of the effective parent)
\* nodes.
C27_SynthesisFollowsDeclaredParents ==
  (StructuredCause /\ IsCustom(LastEffectiveParent)) =>
    /\ last.id \in 1..Len(heap)
    /\ Len(followParentChain(LastInstance)) = 2 + Len(getInstances(LastEffectiveParent))

\* C27 on the payloads that have no field called parent
C27_WithoutParentField ==
  "parent" \in DOMAIN LastPayload \/ C27_SynthesisFollowsDeclaredParents

\* C28: with includeParentContext at its default, getContext does not depend
\* on the Kind it is called through: for every instance and every two Kinds,
\* related to the instance's Kind or not, both calls return the instance's full
\* stored context.
C28_DefaultReadIgnoresKind ==
  \A i \in 1..Len(heap), k1 \in 1..Len(kinds), k2 \in 1..Len(kinds) :
    /\ getContext(ClassName(k1), ErrRef(i), TRUE) = getContext(ClassName(k2), ErrRef(i), TRUE)
    /\ getContext(ClassName(k1), ErrRef(i), TRUE) = StoredContext(i)

\* a Base instance read through its own Kind and through the unrelated Data
C28_Witness ==
  /\ Len(kinds) = 2 /\ kinds[1].name = "Base" /\ kinds[2].name = "Data"
  /\ kinds[1].contextKeys = <<"severity">> /\ kinds[2].parentError = NoKind
  /\ Len(heap) >= 1 /\ KindOf(1) = 1
  /\ getContext("Base", ErrRef(1), TRUE) = Some([severity |-> "high", source |-> "db"])
  /\ getContext("Data", ErrRef(1), TRUE) = Some([severity |-> "high", source |-> "db"])
  /\ getContext("Data", ErrRef(1), FALSE) = Some([source |-> "db"])

\* C29: when the name of a child's declared parent was registered again,
\* after the child was declared, with another own-field list, a construction
\* of the child with a structured-object cause synthesizes a parent that is an
\* instance of the declared parent, not of the newer Kind of that name, and
\* whose context holds the payload's fields of the list registered last under
\* that name (next to those of the parent's ancestors).
C29_ReRegisteredParentName ==
  \A k3 \in 1..Len(kinds) :
    LET parentError == kinds[last.kind].parentError IN
    ( /\ StructuredCause /\ last.options.inherits = NoKind /\ IsCustom(parentError)
      /\ k3 > last.kind /\ kinds[k3].name = kinds[parentError].name
      /\ kinds[k3].contextKeys # kinds[parentError].contextKeys
      /\ \A k4 \in 1..Len(kinds) : k4 > k3 => kinds[k4].name # kinds[k3].name ) =>
      LET p == last.parentInstance
          fields == Range(kinds[k3].contextKeys)
                      \cup UNION { OwnFields(ClassName(a)) : a \in AncestorSet(parentError) }
      IN /\ p.t = "error"
         /\ heap[p.id].proto = parentError
         /\ heap[p.id].proto # k3
         /\ StoredContext(p.id) = StoredOrAbsent(Restrict(LastPayload, fields))

\* Base(severity), Data(source) <- Base, then Base(source): the parent of a Data
\* built from {severity, source} is an instance of the first Base and stores
\* source alone
C29_Witness ==
  /\ Len(kinds) = 3
  /\ kinds[1] = [name |-> "Base", contextKeys |-> <<"severity">>, parentError |-> NoKind]
  /\ kinds[2] = [name |-> "Data", contextKeys |-> <<"source">>, parentError |-> 1]
  /\ kinds[3].name = "Base" /\ kinds[3].contextKeys = <<"source">>
  /\ StructuredCause /\ last.kind = 2 /\ last.options.inherits = NoKind
  /\ LastPayload = [severity |-> "high", source |-> "db"]
  /\ last.parentInstance = ErrRef(1) /\ KindOf(1) = 1
  /\ StoredContext(1) = Some([source |-> "db"])

\* C30: a structured-object cause none of whose fields the effective parent or
\* its ancestors declare, the empty object included, still has one synthesized
\* instance per Kind from the effective parent back to its oldest ancestor,
\* linked by parent, and none of them has a Context Store entry.
C30_UndeclaredPayloadSynthesizesChain ==
  ( /\ StructuredCause /\ IsCustom(LastEffectiveParent)
    /\ DOMAIN LastPayload
         \cap UNION { OwnFields(ClassName(a)) : a \in Lineage(LastEffectiveParent) } = {} ) =>
    LET p == last.parentInstance
        expected == Reverse(Append(getInstances(LastEffectiveParent), LastEffectiveParent))
    IN /\ p.t = "error"
       /\ LET chain == followParentChain(p) IN
          /\ Len(chain) = Len(expected)
          /\ \A j \in 1..Len(chain) :
               /\ chain[j].t = "error"
               /\ heap[chain[j].id].proto = expected[j]
               /\ chain[j].id \notin DOMAIN errorContexts

\* a Leaf of Base <- Data <- Leaf built from {extra, parent}: a Data and a Base
\* are synthesized and the Leaf alone has stored context
C30_Witness ==
  /\ FullChain /\ StructuredCause /\ last.kind = 3 /\ last.options.inherits = NoKind
  /\ DOMAIN LastPayload = {"extra", "parent"}
  /\ Len(heap) = 3 /\ last.parentInstance = ErrRef(2)
  /\ followParentChain(ErrRef(2)) = <<ErrRef(2), ErrRef(1)>>
  /\ KindOf(2) = 2 /\ KindOf(1) = 1
  /\ DOMAIN errorContexts = {3}

\* C30 for the empty payload: no object of the construction has stored context
C30_EmptyPayload ==
  (StructuredCause /\ IsCustom(LastEffectiveParent) /\ DOMAIN LastPayload = {}) =>
    /\ errorContexts = <<>>
    /\ Len(heap) = 2 + Len(getInstances(LastEffectiveParent))

====
